---- MODULE Spec2Model ----
(***************************************************************************)
(* BrandBlast 2.0, the campaign copilot (src/index.tsx).                   *)
(*                                                                         *)
(* The App component is modelled as a state machine over its useState      *)
(* cells.  One action is one event handler run (a click, an input change)  *)
(* or one promise continuation (the code after an await), followed by the  *)
(* re-render React performs; the rendered JSX decides which handlers the   *)
(* user can fire next.  A request to the generative service that has been  *)
(* dispatched and has not settled is an element of the bag inflight; the   *)
(* service answers each request with any response it can produce.          *)
(***************************************************************************)
EXTENDS Naturals, Integers, Sequences, FiniteSets, Bags, TLC

(***************************************************************************)
(* Bounds of the model.                                                    *)
(***************************************************************************)
\* operations that may be awaiting the service at the same time
MaxInFlight == 2
\* longest angle array the service answers with
MaxAngles == 3
\* distinct image payloads the service answers with
NumImages == 2

(***************************************************************************)
(* Values.                                                                 *)
(***************************************************************************)
\* the null of the nullable cells that hold objects or data URLs
Null == [null |-> TRUE]
\* the null of the error cell (string | null)
NoError == "<null>"
\* what a call that throws or rejects yields instead of a value
Thrown == [thrown |-> TRUE]

\* values typed into the text inputs: empty, or some text
Texts == {"", "text"}

\* the data URL FileReader hands over for the chosen file
Photo == [mimeType |-> "image/png", data |-> "photo"]

\* Angle arrays the service's JSON can contain.  The response schema requires
\* title and description to be strings and nothing more: it fixes neither the
\* length of the array nor that a string is non-empty.
BatchA ==
    << [title |-> "A1", description |-> "About A1."],
       [title |-> "A2", description |-> "About A2."],
       [title |-> "A3", description |-> "About A3."],
       [title |-> "A4", description |-> "About A4."] >>

\* lengths of the arrays: none, and the three the prompt asks for or more
AngleLengths == {0} \cup 3..MaxAngles

\* a response text: well-formed JSON for value, or plain text
Json(value) == [wellFormed |-> TRUE, value |-> value]
Plain(lines) == [wellFormed |-> FALSE, value |-> lines]
NotJson == Plain(<<>>)

\* JSON.parse: throws a SyntaxError, or returns the value
JSONparseThrows(text) == ~text.wellFormed
JSONparse(text) == text.value

\* the texts the angle request can be answered with
AngleTexts ==
    { Json(SubSeq(BatchA, 1, n)) : n \in AngleLengths } \cup {NotJson}

ImageData == 1..NumImages

\* the six calls handed to Promise.all, in array order
NumSubCalls == 6
SubCalls == 1..NumSubCalls
ImageCalls == {1, 3, 5}
PromptOf(i) ==
    CASE i = 1 -> "instagramImagePrompt"
      [] i = 2 -> "instagramTextPrompt"
      [] i = 3 -> "facebookImagePrompt"
      [] i = 4 -> "facebookTextPrompt"
      [] i = 5 -> "bannerImagePrompt"
      [] OTHER -> "bannerTextPrompt"

VARIABLES
    productPhoto, productName, targetAudience, desiredVibe,
    marketingAngles, selectedAngle, campaignAssets,
    bannerVariationPrompt, editedBanner,
    isLoading, loadingMessage, currentStep, error,
    inflight    \* bag of the operations awaiting the service

vars == << productPhoto, productName, targetAudience, desiredVibe,
           marketingAngles, selectedAngle, campaignAssets,
           bannerVariationPrompt, editedBanner,
           isLoading, loadingMessage, currentStep, error, inflight >>

inputVars == << productPhoto, productName, targetAudience, desiredVibe >>
contentVars == << marketingAngles, selectedAngle, campaignAssets, editedBanner >>
appVars == << isLoading, loadingMessage, currentStep, error >>

Init ==
    /\ productPhoto = Null
    /\ productName = ""
    /\ targetAudience = ""
    /\ desiredVibe = ""
    /\ marketingAngles = <<>>
    /\ selectedAngle = Null
    /\ campaignAssets = <<>>
    /\ bannerVariationPrompt = ""
    /\ editedBanner = Null
    /\ isLoading = FALSE
    /\ loadingMessage = ""
    /\ currentStep = 1
    /\ error = NoError
    /\ inflight = EmptyBag

\* The cells of the render a handler was created in, as its closure holds
\* them for the whole run of the handler: the cells it reads after its
\* await and the cells its outcome is compared with.
Closure(kind) ==
    CASE kind = "angles" ->
            [ currentStep |-> currentStep ]
      [] kind = "campaign" ->
            [ selectedAngle |-> selectedAngle, campaignAssets |-> campaignAssets,
              currentStep |-> currentStep ]
      [] OTHER ->
            [ campaignAssets |-> campaignAssets, editedBanner |-> editedBanner,
              currentStep |-> currentStep ]

\* an operation suspended at its await
Operation(kind) == [kind |-> kind, closure |-> Closure(kind)]

InFlightCount == BagCardinality(inflight)
Dispatch(op) == inflight (+) SetToBag({op})
Settle(op) == inflight (-) SetToBag({op})
OpsOf(kind) == { op \in BagToSet(inflight) : op.kind = kind }

(***************************************************************************)
(* What the rendered page lets the user do.                                *)
(***************************************************************************)
isStep1Complete ==
    productPhoto # Null /\ productName # "" /\ targetAudience # "" /\ desiredVibe # ""

AnglesButtonDisabled == ~isStep1Complete \/ (isLoading /\ currentStep = 1)

Step2Rendered == currentStep >= 2

CampaignButtonRendered == Step2Rendered /\ Len(marketingAngles) > 0
CampaignButtonDisabled == selectedAngle = Null \/ (isLoading /\ currentStep = 2)

Step4Rendered == currentStep = 3 /\ Len(campaignAssets) > 0
VariationButtonDisabled == bannerVariationPrompt = "" \/ isLoading

(***************************************************************************)
(* Step 1 inputs.                                                          *)
(***************************************************************************)
setProductName(v) ==
    /\ v # productName
    /\ productName' = v
    /\ UNCHANGED << productPhoto, targetAudience, desiredVibe, contentVars,
                    bannerVariationPrompt, appVars, inflight >>

setTargetAudience(v) ==
    /\ v # targetAudience
    /\ targetAudience' = v
    /\ UNCHANGED << productPhoto, productName, desiredVibe, contentVars,
                    bannerVariationPrompt, appVars, inflight >>

setDesiredVibe(v) ==
    /\ v # desiredVibe
    /\ desiredVibe' = v
    /\ UNCHANGED << productPhoto, productName, targetAudience, contentVars,
                    bannerVariationPrompt, appVars, inflight >>

\* handlePhotoChange with a file chosen, up to the reader's loadend event.
\* loadend fires after a successful read (result is the data URL) and after a
\* failed one (result is null); the callback stores the result either way.
\* The callback reads no cell, so the read is taken as one step at loadend.
handlePhotoChange(result) ==
    /\ result # productPhoto
    /\ productPhoto' = result
    /\ UNCHANGED << productName, targetAudience, desiredVibe, contentVars,
                    bannerVariationPrompt, appVars, inflight >>

(***************************************************************************)
(* Step 1 -> 2: getMarketingAngles.                                        *)
(***************************************************************************)
\* click on "1. Suggest Marketing Angles": the handler up to its await
getMarketingAngles ==
    /\ ~AnglesButtonDisabled
    /\ IF productName = "" \/ targetAudience = "" \/ desiredVibe = ""
       THEN UNCHANGED vars
       ELSE /\ InFlightCount < MaxInFlight
            /\ isLoading' = TRUE
            /\ loadingMessage' = "Brainstorming strategic angles..."
            /\ error' = NoError
            /\ marketingAngles' = <<>>
            /\ selectedAngle' = Null
            /\ campaignAssets' = <<>>
            /\ editedBanner' = Null
            /\ inflight' = Dispatch(Operation("angles"))
            /\ UNCHANGED << inputVars, bannerVariationPrompt, currentStep >>

\* AnglesCatch advancing the wizard although the request failed
AnglesCatchAdvancing(op) ==
    /\ error' = "Failed to suggest angles. Please try again."
    /\ currentStep' = 2
    /\ isLoading' = FALSE
    /\ inflight' = Settle(op)
    /\ UNCHANGED << inputVars, contentVars, bannerVariationPrompt, loadingMessage >>

\* AnglesCatch sending the wizard back to the inputs
AnglesCatchBackToInputs(op) ==
    /\ error' = "Failed to suggest angles. Please try again."
    /\ currentStep' = 1
    /\ isLoading' = FALSE
    /\ inflight' = Settle(op)
    /\ UNCHANGED << inputVars, contentVars, bannerVariationPrompt, loadingMessage >>

\* the catch and finally blocks of getMarketingAngles
AnglesCatch(op) ==
    /\ error' = "Failed to suggest angles. Please try again."
    /\ isLoading' = FALSE
    /\ inflight' = Settle(op)
    /\ UNCHANGED << inputVars, contentVars, bannerVariationPrompt,
                    loadingMessage, currentStep >>

\* the rest of the try block after the await, and the finally block
AnglesContinuation(op, text) ==
    LET angles == JSONparse(text)
    IN  IF JSONparseThrows(text)
        THEN AnglesCatch(op)
        ELSE /\ marketingAngles' = angles
             /\ currentStep' = 2
             /\ isLoading' = FALSE
             /\ inflight' = Settle(op)
             /\ UNCHANGED << inputVars, selectedAngle, campaignAssets, editedBanner,
                             bannerVariationPrompt, loadingMessage, error >>

\* the angle request is answered with response.text = text
AnglesAnswered(op, text) ==
    /\ op.kind = "angles"
    /\ BagIn(op, inflight)
    /\ AnglesContinuation(op, text)

\* the angle request is rejected
AnglesRejected(op) ==
    /\ op.kind = "angles"
    /\ BagIn(op, inflight)
    /\ AnglesCatch(op)

\* click on an angle card
selectAngle(i) ==
    /\ Step2Rendered
    /\ i \in 1..Len(marketingAngles)
    /\ selectedAngle' = marketingAngles[i]
    /\ UNCHANGED << inputVars, marketingAngles, campaignAssets, editedBanner,
                    bannerVariationPrompt, appVars, inflight >>

(***************************************************************************)
(* Step 2 -> 3: generateCampaignAssets.                                    *)
(***************************************************************************)
\* a generated image as the code stores it: a png data URL around the base64
\* data of the response; from names the request the service answered
DataUrl(data, from) == [mimeType |-> "image/png", data |-> data, from |-> from]

\* content parts of a multimodal response, and a response carrying parts
TextPart == [text |-> "text"]
ImagePart(d) == [inlineData |-> [data |-> d]]
Candidate(parts) == [parts |-> parts]

\* The part lists a multimodal request can be answered with.  The code reads
\* back only the banner image (generateBannerVariation sends it to the
\* service); every other image is displayed and never read, so its payload is
\* not varied.
ImageResponses(prompt) ==
    LET data == IF prompt = "bannerImagePrompt" THEN ImageData ELSE {1}
    IN  {Candidate(<<TextPart>>)} \cup { Candidate(<<TextPart, ImagePart(d)>>) : d \in data }

\* newImageBase64 before the loop has found an image (null)
NoData == 0

\* the loop over response.candidates[0].content.parts: the data of the first
\* part that carries inlineData, or null
RECURSIVE FirstInlineData(_)
FirstInlineData(parts) ==
    IF parts = <<>> THEN NoData
    ELSE IF "inlineData" \in DOMAIN Head(parts) THEN Head(parts).inlineData.data
    ELSE FirstInlineData(Tail(parts))

\* generateImage after its await: the data URL of the image in the response,
\* or an Error when the response carries none
generateImage(prompt, response) ==
    LET newImageBase64 == FirstInlineData(response.parts)
    IN  IF newImageBase64 = NoData THEN Thrown ELSE DataUrl(newImageBase64, prompt)

\* the texts a text request can be answered with
Headlines == <<"headline 1", "headline 2", "headline 3">>
TextResponses(prompt) ==
    IF prompt = "bannerTextPrompt" THEN {Json(Headlines), NotJson} ELSE {Plain(<<"copy">>)}

\* generateText after its await: result.text, parsed when JSON was asked for.
\* A text is kept with the request it answers.
generateText(prompt, text, expectJson) ==
    IF expectJson
    THEN IF JSONparseThrows(text) THEN Thrown
         ELSE [isArray |-> TRUE, value |-> JSONparse(text), from |-> prompt]
    ELSE [isArray |-> FALSE, value |-> text, from |-> prompt]

\* what sub-call i returns for the response it was answered with
SubCallResult(i, response) ==
    IF i \in ImageCalls
    THEN generateImage(PromptOf(i), response)
    ELSE generateText(PromptOf(i), response, i = 6)

ResponsesTo(i) ==
    IF i \in ImageCalls THEN ImageResponses(PromptOf(i)) ELSE TextResponses(PromptOf(i))

InstagramTitle == "Instagram Lifestyle Post"
FacebookTitle == "Facebook Ad (Focus on People)"
BannerTitle == "Web Banner (Graphic & Direct)"

\* AssembleAssets with the banner entry put first
AssembleAssetsBannerFirst(r) ==
    << [title |-> BannerTitle,    image |-> r[5], text |-> r[6]],
       [title |-> InstagramTitle, image |-> r[1], text |-> r[2]],
       [title |-> FacebookTitle,  image |-> r[3], text |-> r[4]] >>

\* the array handed to setCampaignAssets, from the destructured Promise.all
\* result [instagramImage, instagramText, facebookImage, facebookText,
\* bannerImage, bannerText]
AssembleAssets(r) ==
    << [title |-> InstagramTitle, image |-> r[1], text |-> r[2]],
       [title |-> FacebookTitle,  image |-> r[3], text |-> r[4]],
       [title |-> BannerTitle,    image |-> r[5], text |-> r[6]] >>

\* generateCampaignAssets without the test of its inputs
generateCampaignAssetsUnguarded ==
    /\ CampaignButtonRendered
    /\ ~CampaignButtonDisabled
    /\ InFlightCount < MaxInFlight
    /\ isLoading' = TRUE
    /\ loadingMessage' = "Generating your full campaign assets..."
    /\ error' = NoError
    /\ campaignAssets' = <<>>
    /\ editedBanner' = Null
    /\ inflight' = Dispatch(Operation("campaign"))
    /\ UNCHANGED << inputVars, marketingAngles, selectedAngle,
                    bannerVariationPrompt, currentStep >>

\* click on "2. Generate Full Campaign": the handler up to the await of
\* Promise.all; the six calls are dispatched before it suspends
generateCampaignAssets ==
    /\ CampaignButtonRendered
    /\ ~CampaignButtonDisabled
    /\ IF selectedAngle = Null \/ productName = "" \/ productPhoto = Null
       THEN UNCHANGED vars
       ELSE /\ InFlightCount < MaxInFlight
            /\ isLoading' = TRUE
            /\ loadingMessage' = "Generating your full campaign assets..."
            /\ error' = NoError
            /\ campaignAssets' = <<>>
            /\ editedBanner' = Null
            /\ inflight' = Dispatch(Operation("campaign"))
            /\ UNCHANGED << inputVars, marketingAngles, selectedAngle,
                            bannerVariationPrompt, currentStep >>

\* CampaignCatch keeping what a call that did return has produced
CampaignCatchStoringPartial(op) ==
    /\ error' = "Failed to generate the campaign. Please try again."
    /\ campaignAssets' =
          << [title |-> InstagramTitle,
              image |-> generateImage(PromptOf(1), Candidate(<<ImagePart(1)>>)),
              text |-> generateText(PromptOf(2), Plain(<<"copy">>), FALSE)] >>
    /\ isLoading' = FALSE
    /\ inflight' = Settle(op)
    /\ UNCHANGED << inputVars, marketingAngles, selectedAngle, editedBanner,
                    bannerVariationPrompt, loadingMessage, currentStep >>

\* CampaignCatch without the finally block
CampaignCatchNoFinally(op) ==
    /\ error' = "Failed to generate the campaign. Please try again."
    /\ inflight' = Settle(op)
    /\ UNCHANGED << inputVars, contentVars, bannerVariationPrompt,
                    isLoading, loadingMessage, currentStep >>

\* CampaignCatch sending the wizard back to the angle selection
CampaignCatchResetting(op) ==
    /\ error' = "Failed to generate the campaign. Please try again."
    /\ selectedAngle' = Null
    /\ currentStep' = 2
    /\ isLoading' = FALSE
    /\ inflight' = Settle(op)
    /\ UNCHANGED << inputVars, marketingAngles, campaignAssets, editedBanner,
                    bannerVariationPrompt, loadingMessage >>

\* the catch and finally blocks of generateCampaignAssets
CampaignCatch(op) ==
    /\ error' = "Failed to generate the campaign. Please try again."
    /\ isLoading' = FALSE
    /\ inflight' = Settle(op)
    /\ UNCHANGED << inputVars, contentVars, bannerVariationPrompt,
                    loadingMessage, currentStep >>

\* the rest of the try block after the await of Promise.all, and the finally
\* block; results is the array Promise.all fulfilled with
CampaignContinuation(op, results) ==
    /\ currentStep' = 3
    /\ isLoading' = FALSE
    /\ inflight' = Settle(op)
    /\ campaignAssets' = AssembleAssets(results)
    /\ UNCHANGED << inputVars, marketingAngles, selectedAngle, editedBanner,
                    bannerVariationPrompt, loadingMessage, error >>

\* the responses with which sub-call i returns a value
Fulfilling(i) == { r \in ResponsesTo(i) : SubCallResult(i, r) # Thrown }

\* the responses with which every one of the six calls returns a value
FulfillingResponses ==
    { <<r1, r2, r3, r4, r5, r6>> :
        r1 \in Fulfilling(1), r2 \in Fulfilling(2), r3 \in Fulfilling(3),
        r4 \in Fulfilling(4), r5 \in Fulfilling(5), r6 \in Fulfilling(6) }

\* The six calls settle without writing any cell, so the wizard takes the
\* settlement of Promise.all as one step.  Promise.all fulfils once all six
\* calls have returned a value, with the values in array order...
PromiseAllFulfilled(op, responses) ==
    /\ op.kind = "campaign"
    /\ BagIn(op, inflight)
    /\ responses \in FulfillingResponses
    /\ CampaignContinuation(op, [i \in SubCalls |-> SubCallResult(i, responses[i])])

\* ... and rejects as soon as one call rejects, whatever the other five have
\* done by then.  Call i is the first to reject: its request was rejected, or
\* it threw on its response.
PromiseAllRejected(op, i) ==
    /\ op.kind = "campaign"
    /\ BagIn(op, inflight)
    /\ i \in SubCalls
    /\ CampaignCatch(op)

(***************************************************************************)
(* Step 4: generateBannerVariation.                                        *)
(***************************************************************************)
setBannerVariationPrompt(v) ==
    /\ Step4Rendered
    /\ v # bannerVariationPrompt
    /\ bannerVariationPrompt' = v
    /\ UNCHANGED << inputVars, contentVars, appVars, inflight >>

\* title.includes('Web Banner') over the titles the code gives its assets
IncludesWebBanner(title) == title = BannerTitle

\* campaignAssets.find(a => a.title.includes('Web Banner'))
FindBanner(assets) ==
    LET hits == { i \in 1..Len(assets) : IncludesWebBanner(assets[i].title) }
    IN  IF hits = {} THEN Null
        ELSE assets[CHOOSE i \in hits : \A j \in hits : i <= j]

\* generateBannerVariation without the test of productPhoto
generateBannerVariationNoPhotoTest ==
    /\ Step4Rendered
    /\ ~VariationButtonDisabled
    /\ IF bannerVariationPrompt = ""
       THEN UNCHANGED vars
       ELSE IF FindBanner(campaignAssets) = Null
       THEN /\ error' = "Original banner not found. Please generate a campaign first."
            /\ UNCHANGED << inputVars, contentVars, bannerVariationPrompt,
                            isLoading, loadingMessage, currentStep, inflight >>
       ELSE /\ InFlightCount < MaxInFlight
            /\ isLoading' = TRUE
            /\ loadingMessage' = "Generating variation..."
            /\ error' = NoError
            /\ editedBanner' = Null
            /\ inflight' = Dispatch(Operation("variation"))
            /\ UNCHANGED << inputVars, marketingAngles, selectedAngle, campaignAssets,
                            bannerVariationPrompt, currentStep >>

\* click on "Generate Variation": the handler up to its await
generateBannerVariation ==
    /\ Step4Rendered
    /\ ~VariationButtonDisabled
    /\ IF bannerVariationPrompt = ""
       THEN UNCHANGED vars
       ELSE IF FindBanner(campaignAssets) = Null
       THEN /\ error' = "Original banner not found. Please generate a campaign first."
            /\ UNCHANGED << inputVars, contentVars, bannerVariationPrompt,
                            isLoading, loadingMessage, currentStep, inflight >>
       ELSE IF productPhoto = Null
       THEN /\ error' = "Original product photo not found. Please ensure it is still loaded in Step 1."
            /\ UNCHANGED << inputVars, contentVars, bannerVariationPrompt,
                            isLoading, loadingMessage, currentStep, inflight >>
       ELSE /\ InFlightCount < MaxInFlight
            /\ isLoading' = TRUE
            /\ loadingMessage' = "Generating variation..."
            /\ error' = NoError
            /\ editedBanner' = Null
            /\ inflight' = Dispatch(Operation("variation"))
            /\ UNCHANGED << inputVars, marketingAngles, selectedAngle, campaignAssets,
                            bannerVariationPrompt, currentStep >>

\* VariationContinuation without the test of newImageBase64
VariationContinuationUntested(op, response) ==
    LET newImageBase64 == FirstInlineData(response.parts)
        originalBanner == FindBanner(op.closure.campaignAssets)
    IN  /\ editedBanner' = DataUrl(newImageBase64, originalBanner.image)
        /\ UNCHANGED error
        /\ isLoading' = FALSE
        /\ inflight' = Settle(op)
        /\ UNCHANGED << inputVars, marketingAngles, selectedAngle, campaignAssets,
                        bannerVariationPrompt, loadingMessage, currentStep >>

\* VariationContinuation putting the edited image into the Web Banner asset
VariationContinuationOverwriting(op, response) ==
    LET newImageBase64 == FirstInlineData(response.parts)
        originalBanner == FindBanner(op.closure.campaignAssets)
        edited == DataUrl(newImageBase64, originalBanner.image)
    IN  /\ IF newImageBase64 # NoData
           THEN /\ editedBanner' = edited
                /\ campaignAssets' =
                      [i \in 1..Len(campaignAssets) |->
                          IF IncludesWebBanner(campaignAssets[i].title)
                          THEN [campaignAssets[i] EXCEPT
                                  !.image = DataUrl(newImageBase64, "bannerVariationPrompt")]
                          ELSE campaignAssets[i]]
                /\ UNCHANGED error
           ELSE /\ error' = "The model did not return an edited image. Please try a different prompt."
                /\ UNCHANGED << editedBanner, campaignAssets >>
        /\ isLoading' = FALSE
        /\ inflight' = Settle(op)
        /\ UNCHANGED << inputVars, marketingAngles, selectedAngle,
                        bannerVariationPrompt, loadingMessage, currentStep >>

\* the rest of the try block after the await, and the finally block; the
\* edited image is kept with the banner image the request carried
VariationContinuation(op, response) ==
    LET newImageBase64 == FirstInlineData(response.parts)
        originalBanner == FindBanner(op.closure.campaignAssets)
    IN  /\ IF newImageBase64 # NoData
           THEN /\ editedBanner' = DataUrl(newImageBase64, originalBanner.image)
                /\ UNCHANGED error
           ELSE /\ error' = "The model did not return an edited image. Please try a different prompt."
                /\ UNCHANGED editedBanner
        /\ isLoading' = FALSE
        /\ inflight' = Settle(op)
        /\ UNCHANGED << inputVars, marketingAngles, selectedAngle, campaignAssets,
                        bannerVariationPrompt, loadingMessage, currentStep >>

\* the catch and finally blocks of generateBannerVariation
VariationCatch(op) ==
    /\ error' = "Failed to generate banner variation. Please try again."
    /\ isLoading' = FALSE
    /\ inflight' = Settle(op)
    /\ UNCHANGED << inputVars, contentVars, bannerVariationPrompt,
                    loadingMessage, currentStep >>

\* the edit request is answered
VariationAnswered(op, response) ==
    /\ op.kind = "variation"
    /\ BagIn(op, inflight)
    /\ VariationContinuation(op, response)

\* the edit request is rejected
VariationRejected(op) ==
    /\ op.kind = "variation"
    /\ BagIn(op, inflight)
    /\ VariationCatch(op)

Next ==
    \/ \E v \in Texts : setProductName(v)
    \/ \E v \in Texts : setTargetAudience(v)
    \/ \E v \in Texts : setDesiredVibe(v)
    \/ \E r \in {Photo, Null} : handlePhotoChange(r)
    \/ getMarketingAngles
    \/ \E op \in OpsOf("angles") : \E text \in AngleTexts : AnglesAnswered(op, text)
    \/ \E op \in OpsOf("angles") : AnglesRejected(op)
    \/ \E i \in 1..MaxAngles : selectAngle(i)
    \/ generateCampaignAssets
    \/ \E op \in OpsOf("campaign") : \E rs \in FulfillingResponses : PromiseAllFulfilled(op, rs)
    \/ \E op \in OpsOf("campaign") : \E i \in SubCalls : PromiseAllRejected(op, i)
    \/ \E v \in Texts : setBannerVariationPrompt(v)
    \/ generateBannerVariation
    \/ \E op \in OpsOf("variation") :
          \E r \in ImageResponses("bannerVariationPrompt") : VariationAnswered(op, r)
    \/ \E op \in OpsOf("variation") : VariationRejected(op)

Spec == Init /\ [][Next]_vars
(***************************************************************************)
(* Every dispatched request settles: the service answers or rejects each   *)
(* request after a finite time.                                            *)
(***************************************************************************)
Settled ==
    \/ \E op \in OpsOf("angles") : \E text \in AngleTexts : AnglesAnswered(op, text)
    \/ \E op \in OpsOf("angles") : AnglesRejected(op)
    \/ \E op \in OpsOf("campaign") : \E rs \in FulfillingResponses : PromiseAllFulfilled(op, rs)
    \/ \E op \in OpsOf("campaign") : \E i \in SubCalls : PromiseAllRejected(op, i)
    \/ \E op \in OpsOf("variation") :
          \E r \in ImageResponses("bannerVariationPrompt") : VariationAnswered(op, r)
    \/ \E op \in OpsOf("variation") : VariationRejected(op)

FairSpec == Spec /\ WF_vars(Settled)

(***************************************************************************)
(* Steps of the operations, as the properties below name them.             *)
(***************************************************************************)
\* a handler has dispatched its requests
Dispatched == InFlightCount' > InFlightCount
\* an operation has run to its end
Completed == InFlightCount' < InFlightCount

AnglesTriggerDisabled == AnglesButtonDisabled
CampaignTriggerDisabled == ~CampaignButtonRendered \/ CampaignButtonDisabled
VariationTriggerDisabled == ~Step4Rendered \/ VariationButtonDisabled

\* the step is the completion of op (every completion takes op out of the bag)
CompletionOf(op) == inflight' = Settle(op)

AnglesSucceeded(op) ==
    /\ CompletionOf(op)
    /\ \E text \in AngleTexts : ~JSONparseThrows(text) /\ AnglesAnswered(op, text)

CampaignFailed(op) ==
    /\ CompletionOf(op)
    /\ \E i \in SubCalls : PromiseAllRejected(op, i)
CampaignSucceeded(op) ==
    /\ CompletionOf(op)
    /\ error' = error
    /\ \E rs \in FulfillingResponses : PromiseAllFulfilled(op, rs)

VariationFailed(op) ==
    /\ CompletionOf(op)
    /\ \/ VariationRejected(op)
       \/ \E r \in ImageResponses("bannerVariationPrompt") :
             FirstInlineData(r.parts) = NoData /\ VariationAnswered(op, r)
VariationSucceeded(op) ==
    /\ CompletionOf(op)
    /\ \E r \in ImageResponses("bannerVariationPrompt") :
          FirstInlineData(r.parts) # NoData /\ VariationAnswered(op, r)

Titles(assets) == [i \in 1..Len(assets) |-> assets[i].title]

AnglesError == "Failed to suggest angles. Please try again."
CampaignError == "Failed to generate the campaign. Please try again."
VariationErrors ==
    { "Failed to generate banner variation. Please try again.",
      "The model did not return an edited image. Please try a different prompt." }

(***************************************************************************)
(* C1.  At most one generation operation is in flight: whenever an         *)
(* operation has been dispatched and has not completed, all three          *)
(* triggering actions are disabled, whatever the current step is.          *)
(***************************************************************************)
C1_OneInFlight ==
    /\ InFlightCount <= 1
    /\ InFlightCount = 1 =>
          AnglesTriggerDisabled /\ CampaignTriggerDisabled /\ VariationTriggerDisabled

(***************************************************************************)
(* C2 as claimed.  generateCampaign is atomic: if any of the six sub-calls *)
(* fails, the asset collection after the operation completes equals the    *)
(* collection before the operation was invoked; if all six succeed the     *)
(* collection holds the 3 new assets.                                      *)
(***************************************************************************)
C2_AtomicFromInvocation ==
    [][Completed => \A op \in OpsOf("campaign") :
          /\ CampaignFailed(op) => campaignAssets' = op.closure.campaignAssets
          /\ CampaignSucceeded(op) => Len(campaignAssets') = 3]_vars

(***************************************************************************)
(* C2 as amended.  generateCampaign empties the asset collection when it   *)
(* is invoked; if any of the six sub-calls fails, the failing completion   *)
(* stores nothing: the collection is what it was just before the           *)
(* completion; if all six succeed the collection holds the 3 new assets,   *)
(* one per request of the operation.                                       *)
(***************************************************************************)
C2_ClearedThenAllOrNothing ==
    [][/\ (Dispatched /\ generateCampaignAssets) => campaignAssets' = <<>>
       /\ Completed => \A op \in OpsOf("campaign") :
             /\ CampaignFailed(op) => campaignAssets' = campaignAssets
             /\ CampaignSucceeded(op) =>
                   /\ Len(campaignAssets') = 3
                   /\ \A k \in 1..3 :
                         /\ campaignAssets'[k].image.from = PromptOf(2 * k - 1)
                         /\ campaignAssets'[k].text.from = PromptOf(2 * k)]_vars

\* a regeneration from step 3 has failed and the earlier assets are gone
C2_Witness ==
    /\ error = CampaignError
    /\ currentStep = 3
    /\ campaignAssets = <<>>
    /\ InFlightCount = 0

(***************************************************************************)
(* C3.  In every reachable state the asset collection is empty or holds    *)
(* exactly 3 entries in the order Instagram, Facebook, Web Banner, one per *)
(* role; 1 or 2 assets or another order are never exposed.                 *)
(***************************************************************************)
C3_EmptyOrThreeInOrder ==
    \/ campaignAssets = <<>>
    \/ /\ Len(campaignAssets) = 3
       /\ Titles(campaignAssets) = <<InstagramTitle, FacebookTitle, BannerTitle>>
       /\ campaignAssets[1].image.from = "instagramImagePrompt"
       /\ campaignAssets[2].image.from = "facebookImagePrompt"
       /\ campaignAssets[3].image.from = "bannerImagePrompt"

C3_Witness == Len(campaignAssets) = 3 /\ currentStep = 3

(***************************************************************************)
(* C4.  In every reachable state at most one angle is selected and the     *)
(* selected angle, if any, is a member of the stored angle batch.          *)
(***************************************************************************)
C4_SelectedInBatch ==
    \/ selectedAngle = Null
    \/ \E i \in 1..Len(marketingAngles) : marketingAngles[i] = selectedAngle

(***************************************************************************)
(* C5.  Reset law: in the state reached when a requestAngles call          *)
(* completes successfully and stores its batch, the selected angle is      *)
(* absent, the asset collection is empty and the edited banner is absent.  *)
(***************************************************************************)
C5_ResetOnNewBatch ==
    [][Completed => \A op \in OpsOf("angles") :
          AnglesSucceeded(op) =>
             selectedAngle' = Null /\ campaignAssets' = <<>> /\ editedBanner' = Null]_vars

(***************************************************************************)
(* C6 as claimed.  When generateVariation fails, the edited banner after   *)
(* the operation equals the edited banner before the operation was         *)
(* invoked and an error is reported; when it succeeds the edited banner is *)
(* replaced by the new image.                                              *)
(***************************************************************************)
C6_FailureKeepsPriorBanner ==
    [][Completed => \A op \in OpsOf("variation") :
          /\ VariationFailed(op) =>
                editedBanner' = op.closure.editedBanner /\ error' \in VariationErrors
          /\ VariationSucceeded(op) => editedBanner' # Null]_vars

(***************************************************************************)
(* C6 as amended.  generateVariation clears the edited banner when it is   *)
(* invoked; when it fails, the failing completion leaves the edited banner *)
(* as it was just before the completion and reports an error; when it      *)
(* succeeds the edited banner is replaced by the single new image, which   *)
(* carries image data.                                                     *)
(***************************************************************************)
C6_ClearedThenKeptOrReplaced ==
    [][/\ (Dispatched /\ generateBannerVariation) => editedBanner' = Null
       /\ Completed => \A op \in OpsOf("variation") :
             /\ VariationFailed(op) =>
                   editedBanner' = editedBanner /\ error' \in VariationErrors
             /\ VariationSucceeded(op) =>
                   /\ editedBanner' # Null
                   /\ editedBanner'.data \in ImageData
                   /\ error' = error]_vars

\* a variation has failed and no edited banner is shown
C6_Witness ==
    /\ error \in VariationErrors
    /\ editedBanner = Null
    /\ Step4Rendered
    /\ ~isLoading

(***************************************************************************)
(* C7.  In every reachable state, if an edited banner is present then the  *)
(* asset collection contains the Web Banner asset and the product photo is *)
(* present.                                                                *)
(***************************************************************************)
C7_EditedBannerHasSources ==
    editedBanner # Null => FindBanner(campaignAssets) # Null /\ productPhoto # Null

(***************************************************************************)
(* C8.  The busy flag is set when an operation dispatches its service      *)
(* calls and is cleared on every exit path: if every dispatched call       *)
(* settles, every operation that set the flag reaches a state where the    *)
(* flag is false.                                                          *)
(***************************************************************************)
C8_BusySetAndReleased ==
    /\ [][Dispatched => isLoading']_vars
    /\ [][InFlightCount' < InFlightCount => ~isLoading']_vars
    /\ (isLoading ~> ~isLoading)

\* an operation has failed and the flag is released
C8_Witness ==
    /\ ~isLoading
    /\ error \in {AnglesError, CampaignError} \cup VariationErrors
    /\ InFlightCount = 0

(***************************************************************************)
(* C9 as claimed.  When generateCampaign fails because a sub-call fails,   *)
(* then on completion an error is reported, the selected angle and the     *)
(* stage are the same as before the call, and no result of a sub-call is   *)
(* stored in the asset collection.                                         *)
(***************************************************************************)
C9_FailureRestoresInvocationState ==
    [][Completed => \A op \in OpsOf("campaign") :
          CampaignFailed(op) =>
             /\ error' = CampaignError
             /\ selectedAngle' = op.closure.selectedAngle
             /\ currentStep' = op.closure.currentStep
             /\ campaignAssets' = campaignAssets]_vars

(***************************************************************************)
(* C9 as amended.  When generateCampaign fails because a sub-call fails,   *)
(* the failing completion reports an error, changes neither the selected   *)
(* angle nor the stage (they are what the user and other completions last  *)
(* made them) and stores no result of a sub-call.                          *)
(***************************************************************************)
C9_FailureChangesNothingElse ==
    [][Completed => \A op \in OpsOf("campaign") :
          CampaignFailed(op) =>
             /\ error' = CampaignError
             /\ selectedAngle' = selectedAngle
             /\ currentStep' = currentStep
             /\ campaignAssets' = campaignAssets
             /\ marketingAngles' = marketingAngles]_vars

\* a campaign has failed at the angle selection and the selection is kept
C9_Witness ==
    /\ error = CampaignError
    /\ selectedAngle # Null
    /\ currentStep = 2
    /\ campaignAssets = <<>>
    /\ InFlightCount = 0

(***************************************************************************)
(* C10.  Whenever requestAngles completes successfully and advances to     *)
(* step 2, the stored angle batch holds exactly 3 entries, each with a     *)
(* non-empty title and description.                                        *)
(***************************************************************************)
C10_ThreeNonEmptyAngles ==
    [][Completed => \A op \in OpsOf("angles") :
          AnglesSucceeded(op) =>
             /\ currentStep' = 2
             /\ Len(marketingAngles') = 3
             /\ \A i \in 1..Len(marketingAngles') :
                   marketingAngles'[i].title # "" /\ marketingAngles'[i].description # ""]_vars

\* the step is a failing completion of the angle request op
AnglesFailed(op) ==
    /\ CompletionOf(op)
    /\ \/ AnglesRejected(op)
       \/ \E text \in AngleTexts : JSONparseThrows(text) /\ AnglesAnswered(op, text)

(***************************************************************************)
(* C11 as claimed.  When requestAngles fails, an error is reported, no     *)
(* angle batch is stored and the stage is 1 after the operation completes, *)
(* from every state in which it can be invoked, a re-request from a later  *)
(* stage included.                                                         *)
(***************************************************************************)
C11_FailureBackAtStageOne ==
    [][Completed => \A op \in OpsOf("angles") :
          AnglesFailed(op) =>
             /\ error' = AnglesError
             /\ marketingAngles' = <<>>
             /\ currentStep' = 1]_vars

(***************************************************************************)
(* C11 as amended.  requestAngles empties the angle batch when it is       *)
(* invoked; when it fails, the failing completion reports the error,       *)
(* stores no angle batch and leaves the stage as it was: stage 1 when the  *)
(* request was made from stage 1, the later stage when it was a            *)
(* re-request.                                                             *)
(***************************************************************************)
C11_FailureKeepsStage ==
    [][/\ (Dispatched /\ getMarketingAngles) => marketingAngles' = <<>>
       /\ Completed => \A op \in OpsOf("angles") :
             AnglesFailed(op) =>
                /\ error' = AnglesError
                /\ marketingAngles' = marketingAngles
                /\ currentStep' = currentStep
                /\ op.closure.currentStep = 1 => currentStep' = 1]_vars

\* a re-request of angles from the angle selection has failed
C11_Witness ==
    /\ error = AnglesError
    /\ currentStep = 2
    /\ marketingAngles = <<>>
    /\ InFlightCount = 0

PhotoMissingError ==
    "Original product photo not found. Please ensure it is still loaded in Step 1."

(***************************************************************************)
(* C12.  generateVariation invoked with a non-empty instruction while the  *)
(* product photo is absent reports the photo-missing error, dispatches no  *)
(* service call and leaves the busy flag, the asset collection and the     *)
(* edited banner unchanged.                                                *)
(***************************************************************************)
C12_PhotoMissingNoDispatch ==
    [][(generateBannerVariation /\ bannerVariationPrompt # "" /\ productPhoto = Null) =>
          /\ error' = PhotoMissingError
          /\ inflight' = inflight
          /\ UNCHANGED << isLoading, campaignAssets, editedBanner >>]_vars

\* the variation was asked for after the photo had gone
C12_Witness ==
    /\ error = PhotoMissingError
    /\ productPhoto = Null
    /\ bannerVariationPrompt # ""
    /\ Step4Rendered

\* the trigger of an operation kind can be fired
TriggerEnabled(kind) ==
    CASE kind = "angles" -> ~AnglesTriggerDisabled
      [] kind = "campaign" -> ~CampaignTriggerDisabled
      [] OTHER -> ~VariationTriggerDisabled

\* what the user has to hold for the trigger of an operation kind: the four
\* inputs, a selected angle, an instruction
UserHolds(kind) ==
    CASE kind = "angles" -> isStep1Complete
      [] kind = "campaign" -> selectedAngle # Null
      [] OTHER -> bannerVariationPrompt # ""

\* the step is a failing completion of op
Failed(op) ==
    CASE op.kind = "angles" -> AnglesFailed(op)
      [] op.kind = "campaign" -> CampaignFailed(op)
      [] OTHER -> VariationFailed(op)

(***************************************************************************)
(* C13.  After any operation fails the wizard remains interactive: the     *)
(* busy flag is false once the failed operation completes and, with the    *)
(* inputs and selection the user still has, the action that failed is      *)
(* enabled again; the busy flag never stays set with nothing in flight, so *)
(* no state after a failure has every trigger disabled for good.           *)
(***************************************************************************)
C13_FailedActionEnabledAgain ==
    /\ [][Completed => \A op \in BagToSet(inflight) :
             Failed(op) =>
                /\ ~isLoading'
                /\ UserHolds(op.kind)' => TriggerEnabled(op.kind)']_vars
    /\ [](InFlightCount = 0 => ~isLoading)

(***************************************************************************)
(* The join of generateCampaignAssets, call by call.  In Spec the          *)
(* settlement of Promise.all is one step; here each of the six calls       *)
(* settles in a step of its own, in any order, and the operation keeps     *)
(* what the calls that have returned so far have produced.                 *)
(***************************************************************************)
\* operations that may be awaiting the service at the same time while the
\* calls of the join are followed one by one
MaxJoinInFlight == 1

\* the slot of a call that has not settled
Pending == [pending |-> TRUE]

\* generateCampaignAssets suspended at the await of Promise.all, with the
\* six calls dispatched and none settled
JoinOperation ==
    [ kind |-> "campaign", closure |-> Closure("campaign"),
      results |-> [i \in SubCalls |-> Pending] ]

PendingCalls(op) == { i \in SubCalls : op.results[i] = Pending }

\* click on "2. Generate Full Campaign": the handler up to the await of
\* Promise.all
generateCampaignAssetsJoin ==
    /\ CampaignButtonRendered
    /\ ~CampaignButtonDisabled
    /\ IF selectedAngle = Null \/ productName = "" \/ productPhoto = Null
       THEN UNCHANGED vars
       ELSE /\ InFlightCount < MaxInFlight
            /\ isLoading' = TRUE
            /\ loadingMessage' = "Generating your full campaign assets..."
            /\ error' = NoError
            /\ campaignAssets' = <<>>
            /\ editedBanner' = Null
            /\ inflight' = Dispatch(JoinOperation)
            /\ UNCHANGED << inputVars, marketingAngles, selectedAngle,
                            bannerVariationPrompt, currentStep >>

\* SubCallFulfilled resuming the handler as soon as one call has returned
SubCallFulfilledRacing(op, i, response) ==
    /\ op.kind = "campaign"
    /\ BagIn(op, inflight)
    /\ op.results[i] = Pending
    /\ response \in Fulfilling(i)
    /\ CampaignContinuation(op, [op.results EXCEPT ![i] = SubCallResult(i, response)])

\* SubCallFulfilled keeping the values in the order the calls return
SubCallFulfilledByArrival(op, i, response) ==
    /\ op.kind = "campaign"
    /\ BagIn(op, inflight)
    /\ op.results[i] = Pending
    /\ response \in Fulfilling(i)
    /\ LET slot == CHOOSE s \in PendingCalls(op) : \A t \in PendingCalls(op) : s <= t
           results == [op.results EXCEPT ![slot] = SubCallResult(i, response)]
       IN  IF \A j \in SubCalls : results[j] # Pending
           THEN CampaignContinuation(op, results)
           ELSE /\ inflight' = Settle(op) (+) SetToBag({[op EXCEPT !.results = results]})
                /\ UNCHANGED << inputVars, contentVars, bannerVariationPrompt, appVars >>

\* Call i of op returns a value.  Promise.all keeps it at index i; once no
\* call is pending it fulfils with the array and the handler resumes in the
\* same turn of the event loop.
SubCallFulfilled(op, i, response) ==
    /\ op.kind = "campaign"
    /\ BagIn(op, inflight)
    /\ op.results[i] = Pending
    /\ response \in Fulfilling(i)
    /\ LET results == [op.results EXCEPT ![i] = SubCallResult(i, response)]
       IN  IF \A j \in SubCalls : results[j] # Pending
           THEN CampaignContinuation(op, results)
           ELSE /\ inflight' = Settle(op) (+) SetToBag({[op EXCEPT !.results = results]})
                /\ UNCHANGED << inputVars, contentVars, bannerVariationPrompt, appVars >>

\* Call i of op rejects: its request is rejected, or it throws on the
\* response it got.  Promise.all rejects at once, whatever the other calls
\* have done, and the handler resumes in its catch block in the same turn.
\* The calls still pending settle later into nothing: no cell is written.
SubCallRejected(op, i) ==
    /\ op.kind = "campaign"
    /\ BagIn(op, inflight)
    /\ op.results[i] = Pending
    /\ CampaignCatch(op)

NextJoin ==
    \/ \E v \in Texts : setProductName(v)
    \/ \E v \in Texts : setTargetAudience(v)
    \/ \E v \in Texts : setDesiredVibe(v)
    \/ \E r \in {Photo, Null} : handlePhotoChange(r)
    \/ InFlightCount < MaxJoinInFlight /\ getMarketingAngles
    \/ \E op \in OpsOf("angles") : \E text \in AngleTexts : AnglesAnswered(op, text)
    \/ \E op \in OpsOf("angles") : AnglesRejected(op)
    \/ \E i \in 1..MaxAngles : selectAngle(i)
    \/ InFlightCount < MaxJoinInFlight /\ generateCampaignAssetsJoin
    \/ \E op \in OpsOf("campaign") : \E i \in SubCalls :
          \E r \in Fulfilling(i) : SubCallFulfilled(op, i, r)
    \/ \E op \in OpsOf("campaign") : \E i \in SubCalls : SubCallRejected(op, i)
    \/ \E v \in Texts : setBannerVariationPrompt(v)
    \/ InFlightCount < MaxJoinInFlight /\ generateBannerVariation
    \/ \E op \in OpsOf("variation") :
          \E r \in ImageResponses("bannerVariationPrompt") : VariationAnswered(op, r)
    \/ \E op \in OpsOf("variation") : VariationRejected(op)

SpecJoin == Init /\ [][NextJoin]_vars

\* the step is the fulfilment of the join of op: its last call returns
JoinFulfilled(op) ==
    /\ CompletionOf(op)
    /\ \E i \in PendingCalls(op) : \E r \in Fulfilling(i) : SubCallFulfilled(op, i, r)

\* the step is the rejection of the join of op
JoinRejected(op) ==
    /\ CompletionOf(op)
    /\ \E i \in PendingCalls(op) : SubCallRejected(op, i)

(***************************************************************************)
(* C14 as claimed.  The join in generateCampaign is a barrier: the         *)
(* continuation of the operation, on the failure path as on the success    *)
(* path, runs only after all six calls have settled, that is, in the step  *)
(* in which the last pending call settles.                                 *)
(***************************************************************************)
C14_BarrierOnEveryPath ==
    [][Completed => \A op \in OpsOf("campaign") :
          CompletionOf(op) => Cardinality(PendingCalls(op)) = 1]_vars

(***************************************************************************)
(* C14 as amended.  The join is a barrier on the success path only: the    *)
(* assets are stored and the stage advanced in the step in which the last  *)
(* of the six calls returns.  On the failure path the continuation runs    *)
(* in the step in which the first call fails, without waiting for the      *)
(* calls still pending; it reports the error, clears the busy flag and     *)
(* stores nothing.                                                         *)
(***************************************************************************)
C14_BarrierOnSuccessOnly ==
    [][Completed => \A op \in OpsOf("campaign") :
          CompletionOf(op) =>
             \/ /\ Cardinality(PendingCalls(op)) = 1
                /\ JoinFulfilled(op)
                /\ Len(campaignAssets') = 3
                /\ currentStep' = 3
                /\ ~isLoading'
             \/ /\ JoinRejected(op)
                /\ error' = CampaignError
                /\ campaignAssets' = campaignAssets
                /\ currentStep' = currentStep
                /\ ~isLoading']_vars

\* a join with calls returned and calls still pending: a call failing now
\* resumes the handler before the others have settled
C14_Witness ==
    /\ isLoading
    /\ \E op \in OpsOf("campaign") :
          Cardinality(PendingCalls(op)) \in 2..(NumSubCalls - 1)

(***************************************************************************)
(* C15.  For every completion order of the six concurrent calls a          *)
(* successful generateCampaign stores the same result: the asset of each   *)
(* role pairs that role's image result with that role's text result (the   *)
(* banner with the list of strings), whichever call finished first.        *)
(***************************************************************************)
C15_KeyedByRole ==
    [][Completed => \A op \in OpsOf("campaign") :
          JoinFulfilled(op) =>
             /\ Titles(campaignAssets') = <<InstagramTitle, FacebookTitle, BannerTitle>>
             /\ \A k \in 1..3 :
                   /\ campaignAssets'[k].image.from = PromptOf(2 * k - 1)
                   /\ campaignAssets'[k].text.from = PromptOf(2 * k)
                   /\ (2 * k - 1) \notin PendingCalls(op) =>
                         campaignAssets'[k].image = op.results[2 * k - 1]
                   /\ (2 * k) \notin PendingCalls(op) =>
                         campaignAssets'[k].text = op.results[2 * k]
             /\ campaignAssets'[3].text.isArray
             /\ ~campaignAssets'[1].text.isArray
             /\ ~campaignAssets'[2].text.isArray]_vars

\* the calls have returned in another order than the array lists them: the
\* banner calls are in, the Instagram and Facebook calls are pending
C15_Witness ==
    \E op \in OpsOf("campaign") :
       /\ PendingCalls(op) = {1, 2, 3, 4}
       /\ op.results[5].from = "bannerImagePrompt"
       /\ op.results[6].isArray

(***************************************************************************)
(* C16 as claimed.  The stage advances monotonically: it never decreases,  *)
(* and when an operation fails the stage keeps the value it had before     *)
(* that operation.                                                         *)
(***************************************************************************)
C16_StageNeverDecreases ==
    [][/\ currentStep' >= currentStep
       /\ Completed => \A op \in BagToSet(inflight) :
             Failed(op) => currentStep' = op.closure.currentStep]_vars

(***************************************************************************)
(* C16 as amended.  The stage is changed by successful completions only: a *)
(* successful requestAngles sets it to 2, which lowers it when the request *)
(* was made from stage 3, and a successful generateCampaign sets it to 3.  *)
(* It never returns to stage 1, and a failing completion leaves it as it   *)
(* was.                                                                    *)
(***************************************************************************)
C16_StageSetBySuccessOnly ==
    [][/\ currentStep' # currentStep =>
             \/ currentStep' = 2 /\ \E op \in OpsOf("angles") : AnglesSucceeded(op)
             \/ currentStep' = 3 /\ \E op \in OpsOf("campaign") : CampaignSucceeded(op)
       /\ currentStep' < currentStep => currentStep = 3 /\ currentStep' = 2
       /\ Completed => \A op \in BagToSet(inflight) :
             Failed(op) => currentStep' = currentStep]_vars

\* new angles have arrived and lowered the stage under an operation that was
\* invoked at stage 3
C16_Witness ==
    /\ currentStep = 2
    /\ \E op \in BagToSet(inflight) : op.closure.currentStep = 3

(***************************************************************************)
(* C17.  Once stage 1 has completed (an angle batch has been generated)    *)
(* the campaign inputs productPhoto, productName, targetAudience and       *)
(* desiredVibe never change in any later state.                            *)
(***************************************************************************)
C17_InputsFrozenAfterStageOne ==
    [][currentStep >= 2 => UNCHANGED inputVars]_vars

(***************************************************************************)
(* C18.  After a generateCampaign call has completed successfully and      *)
(* stored a new asset collection no stale edited banner is present: an     *)
(* edited banner in the state was derived from the Web Banner image of the *)
(* asset collection that is stored, under every interleaving with a        *)
(* generateVariation call.                                                 *)
(***************************************************************************)
C18_NoStaleEditedBanner ==
    (campaignAssets # <<>> /\ editedBanner # Null) =>
        /\ FindBanner(campaignAssets) # Null
        /\ editedBanner.from = FindBanner(campaignAssets).image

\* the step is a step of generateVariation: the click with any outcome of its
\* preconditions, or the completion of a variation request
VariationStep ==
    \/ generateBannerVariation
    \/ \E op \in OpsOf("variation") : VariationFailed(op) \/ VariationSucceeded(op)

(***************************************************************************)
(* C19.  generateVariation never changes the asset collection, the angle   *)
(* batch, the selected angle or the stage, whether it succeeds, fails or   *)
(* is rejected by a precondition; it writes only the edited banner, the    *)
(* error message and the busy flag and progress label.                     *)
(***************************************************************************)
C19_VariationFrame ==
    [][VariationStep =>
          UNCHANGED << campaignAssets, marketingAngles, selectedAngle, currentStep,
                       inputVars, bannerVariationPrompt >>]_vars

\* a variation has succeeded beside the assets it was made from
C19_Witness ==
    /\ editedBanner # Null
    /\ Len(campaignAssets) = 3
    /\ editedBanner.from = campaignAssets[3].image
    /\ InFlightCount = 0

(***************************************************************************)
(* C20.  An operation invoked while its input precondition is not met is a *)
(* no-op: getMarketingAngles with an empty name, audience or vibe,         *)
(* generateCampaignAssets with no selected angle, an empty product name or *)
(* no photo, and generateBannerVariation with an empty instruction         *)
(* dispatch no service call and leave every state variable unchanged.      *)
(***************************************************************************)
C20_UnmetPreconditionIsNoOp ==
    [][/\ (/\ getMarketingAngles
           /\ productName = "" \/ targetAudience = "" \/ desiredVibe = "")
             => UNCHANGED vars
       /\ (/\ generateCampaignAssets
           /\ selectedAngle = Null \/ productName = "" \/ productPhoto = Null)
             => UNCHANGED vars
       /\ (generateBannerVariation /\ bannerVariationPrompt = "")
             => UNCHANGED vars]_vars

\* the campaign button can be clicked although the product name or the photo
\* is gone
C20_Witness ==
    /\ CampaignButtonRendered
    /\ ~CampaignButtonDisabled
    /\ productName = "" \/ productPhoto = Null
    /\ error = NoError
    /\ InFlightCount = 0

(***************************************************************************)
(* C21.  The product photo, once set, never becomes absent again, and the  *)
(* stage leaves stage 1 only when the photo is present; hence in every     *)
(* reachable state with currentStep >= 2 the photo is present, and the     *)
(* photo-missing branch of generateBannerVariation is never taken through  *)
(* the user actions.                                                       *)
(***************************************************************************)
C21_PhotoStaysPresent ==
    /\ [][productPhoto # Null => productPhoto' # Null]_vars
    /\ [](currentStep >= 2 => productPhoto # Null)
    /\ [][generateBannerVariation => productPhoto # Null]_vars
====
